---- MODULE Spec2Model ----
(***************************************************************************)
(* A model of NeuroDecode's streaming layer:                               *)
(*   - StreamReceiver (stream_receiver/stream_receiver.py): discovery,     *)
(*     per-stream acquisition threads, windowed and whole-buffer reads;    *)
(*   - StreamPlayer / Streamer (stream_player/stream_player.py): the       *)
(*     supervisor's start/wait/stop handshake and the paced chunk loop.    *)
(*                                                                         *)
(* Three specifications share the module:                                  *)
(*   Spec         the receiver, its consumer threads and its workers;      *)
(*   SpecStreamer one Streamer.stream() run against a clock;               *)
(*   SpecPlayer   the StreamPlayer supervisor and its worker processes.    *)
(***************************************************************************)
EXTENDS Integers, Sequences, FiniteSets, Bags, TLC

(***************************************************************************)
(* Bounds of the receiver model.                                           *)
(***************************************************************************)
\* Acquisition threads alive at once.
MaxLive == 2
\* Samples a source delivers over one connection.
MaxTs == 2

None == "None"

\* The consumer threads. "main" constructs the receiver and may call every
\* method; "aux" is a second consumer that calls acquire(), get_window() and
\* get_buffer(). connect(), disconnect_stream() and the resets are issued
\* while the other consumer is between calls.
Threads == {"main", "aux"}

(***************************************************************************)
(* The network: what pylsl.resolve_streams() can return.                   *)
(***************************************************************************)
Reserved == "StreamRecorderInfo"

Sources ==
    { [name |-> "AMP1", type |-> "EEG", srate |-> 512],
      [name |-> "AMP2", type |-> "Markers", srate |-> 0],
      [name |-> Reserved, type |-> "Markers", srate |-> 0],
      [name |-> "AUDIO", type |-> "Audio", srate |-> 44100] }

SourceNames == {i.name : i \in Sources}

\* str.lower() on the stream types in use.
Lower(t) ==
    CASE t = "EEG" -> "eeg"
      [] t = "Markers" -> "markers"
      [] t = "Audio" -> "audio"
      [] OTHER -> t

\* The stream_name argument of connect(): None, a str, or a list of names.
NoFilter == [kind |-> "none", names |-> {}]

StrFilter(n) == [kind |-> "str", names |-> {n}]

ListFilter(S) == [kind |-> "list", names |-> S]

NameFilters ==
    { NoFilter, StrFilter("AMP1"),
      ListFilter({"AMP1", "AMP2"}), ListFilter({"AMP2", Reserved}) }

\* Buffer capacity and window length, in buffer entries.
BufSizes == {2}

WinSizes == {1, 2}

ConnectArgs ==
    [bufsize : BufSizes, winsize : WinSizes,
     stream_name : NameFilters, eeg_only : BOOLEAN]

NoArgs ==
    [bufsize |-> 0, winsize |-> 0, stream_name |-> NoFilter, eeg_only |-> FALSE]

\* Line 35: the defaults of connect().
DefaultArgs ==
    [bufsize |-> 1, winsize |-> 1, stream_name |-> NoFilter, eeg_only |-> FALSE]

\* The stream_name argument of get_window, get_buffer, reset_buffer and
\* disconnect_stream.
NameArgs == {None, "AMP1", "AMP2"}

VARIABLES
    streams,        \* self._streams: name -> stream object; acq tells
                    \* whether a thread was ever started on the object,
                    \* app what was appended to its buffer since it was
                    \* last cleared
    threads,        \* self._acquisition_threads: name -> the Thread it holds
    orphans,        \* live Threads that no entry of the dict holds: a bag
    is_connected,   \* self._is_connected
    pc,             \* each consumer thread's position, or its call's outcome
    closed          \* names whose inlet close_stream() was called on

rvars == <<streams, threads, orphans, is_connected, pc, closed>>

(***************************************************************************)
(* Thread objects. A dict entry is modelled by the state of the Thread it  *)
(* refers to: st is none (the entry is None), pulling or appending (the    *)
(* thread is alive) or done; tgt tells whether the stream object the       *)
(* thread was started on is still the one registered under its name        *)
(* (current), was dropped by a later connect() (replaced) or was removed   *)
(* by disconnect_stream() (closed); ts is the sample it pulled, 0 if none; *)
(* j is the callers whose join() waits for the thread.                     *)
(***************************************************************************)
EmptyMap == [n \in {} |-> None]

MapDel(f, k) == [x \in (DOMAIN f) \ {k} |-> f[x]]

NoThread == [st |-> "none", tgt |-> "-", ts |-> 0, j |-> {}]

DoneThread == [st |-> "done", tgt |-> "-", ts |-> 0, j |-> {}]

NewThread == [st |-> "pulling", tgt |-> "current", ts |-> 0, j |-> {}]

\* Thread.is_alive().
IsAlive(w) == w.st \in {"pulling", "appending"}

\* The live threads started on a stream registered under name n, as
\* [name, held, w]: held tells whether the dict entry refers to it.
HeldLive == {[name |-> n, held |-> TRUE, w |-> threads[n]] :
                n \in {k \in DOMAIN threads : IsAlive(threads[k])}}

OrphanLive == {[name |-> o.name, held |-> FALSE, w |-> o.w] : o \in BagToSet(orphans)}

LiveThreads == HeldLive \cup OrphanLive

NumLive == Cardinality(HeldLive) + BagCardinality(orphans)

NumLiveOn(n) ==
    (IF n \in DOMAIN threads /\ IsAlive(threads[n]) THEN 1 ELSE 0)
    + BagCardinality([o \in {x \in BagToSet(orphans) : x.name = n} |-> orphans[o]])

One(o) == SetToBag({o})

\* Every live thread the predicate hits gets a new target mark.
Retarget(w, hit, mark) ==
    IF IsAlive(w) /\ hit /\ w.tgt = "current" THEN [w EXCEPT !.tgt = mark] ELSE w

RetargetOrphans(names, mark) ==
    BagOfAll(LAMBDA o : [o EXCEPT !.w = Retarget(o.w, o.name \in names, mark)],
             orphans)

Idle ==
    [at |-> "idle", op |-> "", arg |-> None, s |-> None, out |-> "",
     todo |-> {}, cargs |-> NoArgs, vis |-> {}, val |-> <<>>, prev |-> {},
     warn |-> "", busy |-> FALSE, h |-> ""]

\* A finished call: what was called, with what, and how it ended.
Ret(op, arg, s, out, val) ==
    [Idle EXCEPT !.at = "ret", !.op = op, !.arg = arg, !.s = s,
                 !.out = out, !.val = val]

\* A call's outcome is taken by its caller before anything else moves:
\* returning touches no shared state.
NoPendingReturn == \A t \in Threads : pc[t].at # "ret"

Quiet(t) == \A u \in Threads \ {t} : pc[u].at = "idle"

\* A method can be called on a constructed receiver by a thread that is
\* between calls; _is_connected is False only inside connect().
CanCall(t) == pc[t].at = "idle" /\ is_connected /\ NoPendingReturn

\* The structural methods are called by main while aux is between calls.
CanCallAlone(t) == t = "main" /\ CanCall(t) /\ Quiet(t)

(***************************************************************************)
(* connect(), lines 35-113.                                                *)
(***************************************************************************)
\* The filters without the skip of the reserved name.
PassesFiltersReservedToo(info, a) ==
    /\ ~(a.eeg_only /\ Lower(info.type) # "eeg")
    /\ ~(a.stream_name.kind = "str" /\ info.name \notin a.stream_name.names)
    /\ ~(a.stream_name.kind = "list" /\ info.name \notin a.stream_name.names)

\* Lines 76-93: the four filters, in order.
PassesFilters(info, a) ==
    /\ ~(a.eeg_only /\ Lower(info.type) # "eeg")
    /\ ~(a.stream_name.kind = "str" /\ info.name \notin a.stream_name.names)
    /\ ~(a.stream_name.kind = "list" /\ info.name \notin a.stream_name.names)
    /\ info.name # Reserved

\* Lines 96-102: which stream object a source that passed gets, if any.
StreamKind(info) ==
    IF Lower(info.type) = "eeg" THEN "eeg"
    ELSE IF info.srate = 0 THEN "marker"
    ELSE "none"

NewStream(info, a) ==
    [kind |-> StreamKind(info), buf |-> <<>>, nrecv |-> 0,
     cap |-> a.bufsize, win |-> a.winsize, acq |-> FALSE, app |-> <<>>]

\* Line 104: server_found is set for every source that passed the filters.
ServerFound(vis, a) == \E info \in vis : PassesFilters(info, a)

\* The connected streams whose buffer holds entries; a call of connect()
\* remembers them in prev, for the record.
Filled == {n \in DOMAIN streams : streams[n].buf # <<>>}

\* connect() without the reset of the stream map.
ConnectBeginMerging(t, a) ==
    /\ t = "main"
    /\ pc[t].at = "idle"
    /\ NoPendingReturn
    /\ Quiet(t)
    /\ is_connected' = FALSE
    /\ pc' = [pc EXCEPT ![t] = [Idle EXCEPT !.at = "connect", !.op = "connect",
                                            !.cargs = a, !.prev = Filled]]
    /\ UNCHANGED <<streams, threads, orphans, closed>>

\* Lines 57-59: the stream objects of the old dict are dropped; threads
\* started on them run on.
ResetMap ==
    /\ streams' = EmptyMap
    /\ is_connected' = FALSE
    /\ threads' = [n \in DOMAIN threads |-> Retarget(threads[n], TRUE, "replaced")]
    /\ orphans' = RetargetOrphans(SourceNames, "replaced")
    /\ closed' = {}

\* connect() is called, by the constructor first.
connect(t, a) ==
    /\ t = "main"
    /\ pc[t].at = "idle"
    /\ NoPendingReturn
    /\ ResetMap
    /\ pc' = [pc EXCEPT ![t] = [Idle EXCEPT !.at = "connect", !.op = "connect",
                                            !.cargs = a, !.prev = Filled]]

\* connect() called while no other call runs.
ConnectBegin(t, a) == Quiet(t) /\ connect(t, a)

\* A mutation of FillThreads: entries are made when the dict is empty only.
FillThreadsOnce(names) ==
    IF DOMAIN threads = {} THEN [n \in names |-> NoThread] ELSE threads

\* Lines 107-109: every registered name that is not yet a key of
\* self._acquisition_threads gets the entry None.
FillThreads(names) ==
    [n \in (DOMAIN threads) \cup names |->
        IF n \in DOMAIN threads THEN threads[n] ELSE NoThread]

\* One iteration of the discovery loop (lines 61-105) on what
\* resolve_streams() returns, and, once server_found, lines 107-113.
ConnectScan(t, vis) ==
    /\ pc[t].at \in {"connect", "reconnect"}
    /\ LET a == pc[t].cargs
           reg == {i \in vis : PassesFilters(i, a) /\ StreamKind(i) # "none"}
           new == [n \in {i.name : i \in reg} |->
                     NewStream(CHOOSE i \in reg : i.name = n, a)]
           all == [n \in (DOMAIN streams) \cup (DOMAIN new) |->
                     IF n \in DOMAIN new THEN new[n] ELSE streams[n]]
       IN  IF ServerFound(vis, a)
           THEN /\ streams' = all
                /\ threads' = FillThreads(DOMAIN all)
                /\ is_connected' = TRUE
                /\ pc' = [pc EXCEPT ![t] =
                            IF pc[t].at = "reconnect"
                            THEN [pc[t] EXCEPT !.at = "isconn", !.vis = vis]
                            ELSE [Ret("connect", None, None, "ok", <<>>)
                                    EXCEPT !.cargs = a, !.vis = vis,
                                           !.prev = pc[t].prev]]
           ELSE /\ streams' = all
                /\ UNCHANGED <<threads, is_connected, pc>>
    /\ UNCHANGED <<orphans, closed>>

(***************************************************************************)
(* Stream-name resolution, the first lines of disconnect_stream,           *)
(* get_window, get_buffer and reset_buffer (135-140, 180-185, 229-234,     *)
(* 261-266).                                                               *)
(***************************************************************************)
Sole == CHOOSE n \in DOMAIN streams : TRUE

ResolveName(arg) ==
    IF Cardinality(DOMAIN streams) = 1 THEN Sole ELSE arg

\* The elif branch taken only when several streams are connected.
AmbiguousWhenSeveral(arg) == Cardinality(DOMAIN streams) > 1 /\ arg = None

\* The elif branch: raise ValueError.
Ambiguous(arg) == Cardinality(DOMAIN streams) # 1 /\ arg = None

(***************************************************************************)
(* disconnect_stream(), lines 125-147.                                     *)
(***************************************************************************)
disconnect_stream(t, arg) ==
    /\ CanCallAlone(t)
    /\ LET n == ResolveName(arg) IN
       IF Ambiguous(arg)
       THEN /\ pc' = [pc EXCEPT ![t] =
                        Ret("disconnect_stream", arg, None, "ValueError", <<>>)]
            /\ UNCHANGED <<streams, threads, orphans, closed>>
       ELSE IF n \in DOMAIN streams
       THEN /\ closed' = closed \cup {n}
            /\ streams' = MapDel(streams, n)
            /\ threads' = [k \in DOMAIN threads |->
                             Retarget(threads[k], k = n, "closed")]
            /\ orphans' = RetargetOrphans({n}, "closed")
            /\ pc' = [pc EXCEPT ![t] =
                        Ret("disconnect_stream", arg, n, "ok", <<>>)]
       ELSE \* KeyError, caught and logged
            /\ pc' = [pc EXCEPT ![t] =
                        Ret("disconnect_stream", arg, n, "skipped", <<>>)]
            /\ UNCHANGED <<streams, threads, orphans, closed>>
    /\ UNCHANGED is_connected

(***************************************************************************)
(* acquire(), lines 149-161.                                               *)
(***************************************************************************)
\* Line 153: the loop over the connected streams starts.
AcquireCall(t) ==
    /\ CanCall(t)
    /\ pc' = [pc EXCEPT ![t] =
                IF DOMAIN streams = {}
                THEN Ret("acquire", None, None, "ok", <<>>)
                ELSE [Idle EXCEPT !.at = "acq_check", !.op = "acquire",
                                  !.todo = DOMAIN streams]]
    /\ UNCHANGED <<streams, threads, orphans, is_connected, closed>>

AfterStream(t, n) ==
    IF pc[t].todo = {n}
    THEN Ret("acquire", None, None, "ok", <<>>)
    ELSE [pc[t] EXCEPT !.at = "acq_check", !.todo = @ \ {n}, !.s = None]

\* Lines 154-156: is a thread of this stream still alive?
SkipsStream(n) == threads[n].st # "none" /\ IsAlive(threads[n])

AcquireCheck(t, n) ==
    /\ pc[t].at = "acq_check"
    /\ NoPendingReturn
    /\ n \in pc[t].todo
    /\ pc' = [pc EXCEPT ![t] =
                IF SkipsStream(n) THEN AfterStream(t, n)
                ELSE [pc[t] EXCEPT !.at = "acq_spawn", !.s = n]]
    /\ UNCHANGED <<streams, threads, orphans, is_connected, closed>>

\* Lines 158-161: start a thread on the stream object and keep its handle.
\* A live thread whose handle is overwritten runs on, held by nothing.
AcquireSpawn(t) ==
    /\ pc[t].at = "acq_spawn"
    /\ NoPendingReturn
    /\ NumLive < MaxLive
    /\ LET n == pc[t].s IN
       IF n \notin DOMAIN streams
       THEN \* a connect() dropped the stream meanwhile: KeyError at line 158
            /\ pc' = [pc EXCEPT ![t] = Ret("acquire", None, n, "KeyError", <<>>)]
            /\ UNCHANGED <<streams, threads, orphans>>
       ELSE /\ threads' = [threads EXCEPT ![n] = NewThread]
            /\ streams' = [streams EXCEPT ![n].acq = TRUE]
            /\ orphans' = IF IsAlive(threads[n])
                          THEN orphans (+) One([name |-> n, w |-> threads[n]])
                          ELSE orphans
            /\ pc' = [pc EXCEPT ![t] = AfterStream(t, n)]
    /\ UNCHANGED <<is_connected, closed>>

(***************************************************************************)
(* The acquisition worker: one pull from the inlet, appended to the        *)
(* stream object's buffer (the thread target of line 158).                 *)
(***************************************************************************)
\* The append of one timestamped entry, the oldest evicted beyond capacity.
Fill(buf, ts, cap) ==
    LET b == Append(buf, ts)
    IN  IF Len(b) > cap THEN SubSeq(b, Len(b) - cap + 1, Len(b)) ELSE b

\* The thread d goes on as w, or ends when w is done.
PutThread(d, w) ==
    IF d.held
    THEN /\ threads' = [threads EXCEPT ![d.name] = w]
         /\ UNCHANGED orphans
    ELSE /\ orphans' = IF IsAlive(w)
                       THEN (orphans (-) One([name |-> d.name, w |-> d.w]))
                            (+) One([name |-> d.name, w |-> w])
                       ELSE orphans (-) One([name |-> d.name, w |-> d.w])
         /\ UNCHANGED threads

\* The pull: the inlet hands over its next sample (k = 1) or nothing.
WorkerPull(d, k) ==
    /\ d \in LiveThreads
    /\ NoPendingReturn
    /\ d.w.st = "pulling"
    /\ IF k = 1
       THEN /\ d.w.tgt = "current"
            /\ streams[d.name].nrecv < MaxTs
            /\ streams' = [streams EXCEPT ![d.name].nrecv = @ + 1]
            /\ PutThread(d, [d.w EXCEPT !.st = "appending",
                                        !.ts = streams[d.name].nrecv + 1])
       ELSE /\ PutThread(d, [d.w EXCEPT !.st = "appending"])
            /\ UNCHANGED streams
    /\ UNCHANGED <<is_connected, pc, closed>>

\* A thread's end that no join() sees.
EndedUnseen(d) == pc

\* The thread d ends: the join() of every caller that waits for it can
\* return.
Ended(d) ==
    [u \in Threads |->
        IF u \in d.w.j THEN [pc[u] EXCEPT !.h = "ended"] ELSE pc[u]]

\* The append, after which the thread ends.
WorkerAppend(d) ==
    /\ d \in LiveThreads
    /\ NoPendingReturn
    /\ d.w.st = "appending"
    /\ streams' =
         IF d.w.tgt = "current" /\ d.w.ts > 0
         THEN [streams EXCEPT ![d.name].buf = Fill(@, d.w.ts, streams[d.name].cap),
                              ![d.name].app = Append(@, d.w.ts)]
         ELSE streams
    /\ PutThread(d, DoneThread)
    /\ pc' = Ended(d)
    /\ UNCHANGED <<is_connected, closed>>

(***************************************************************************)
(* get_window() and get_buffer(), lines 163-249. Both resolve the name,    *)
(* join the stream's thread, then read the buffer.                         *)
(***************************************************************************)
\* Python's seq[-k:].
LastN(seq, k) ==
    IF k = 0 \/ k >= Len(seq) THEN seq ELSE SubSeq(seq, Len(seq) - k + 1, Len(seq))

\* Lines 190 and 238: self._acquisition_threads[stream_name], the object
\* join() is then called on: None, a thread that has ended, or the live
\* thread the entry holds.
Fetch(n) ==
    IF threads[n].st = "none" THEN "none"
    ELSE IF IsAlive(threads[n]) THEN "live" ELSE "ended"

\* join() is called by t on the entry of stream n: a live thread has one
\* more caller waiting for it.
Joined(t, n) ==
    IF IsAlive(threads[n]) THEN [threads EXCEPT ![n].j = @ \cup {t}]
    ELSE threads

\* Lines 180-190 and 229-238: the name is resolved, the stream looked up,
\* the connection flag read, which is True while no connect() runs, and the
\* entry of the stream's thread fetched. busy records whether the stream's
\* thread is alive at the call.
ReadCall(t, op, arg) ==
    /\ CanCall(t)
    /\ LET n == ResolveName(arg) IN
       /\ pc' = [pc EXCEPT ![t] =
                IF Ambiguous(arg) THEN Ret(op, arg, None, "ValueError", <<>>)
                ELSE IF n \notin DOMAIN streams THEN Ret(op, arg, n, "KeyError", <<>>)
                ELSE [Idle EXCEPT !.at = "join", !.op = op, !.arg = arg, !.s = n,
                                  !.busy = IsAlive(threads[n]),
                                  !.h = Fetch(n)]]
       /\ threads' = IF ~Ambiguous(arg) /\ n \in DOMAIN streams
                     THEN Joined(t, n) ELSE threads
    /\ UNCHANGED <<streams, orphans, is_connected, closed>>

\* Lines 180-187 and 229-234 alone: the caller is preempted before it reads
\* the connection flag.
ReadLookup(t, op, arg) ==
    /\ CanCall(t)
    /\ LET n == ResolveName(arg) IN
       pc' = [pc EXCEPT ![t] =
                IF Ambiguous(arg) THEN Ret(op, arg, None, "ValueError", <<>>)
                ELSE IF n \notin DOMAIN streams THEN Ret(op, arg, n, "KeyError", <<>>)
                ELSE [Idle EXCEPT !.at = "isconn", !.op = op, !.arg = arg, !.s = n,
                                  !.busy = IsAlive(threads[n])]]
    /\ UNCHANGED <<streams, threads, orphans, is_connected, closed>>

\* Lines 188 and 236, is_connected (277-288): the flag is read; if it is
\* False, connect() is called with no arguments and the flag read again.
IsConnectedRead(t) ==
    /\ pc[t].at = "isconn"
    /\ NoPendingReturn
    /\ IF is_connected
       THEN /\ pc' = [pc EXCEPT ![t].at = "join", ![t].h = Fetch(pc[t].s)]
            /\ threads' = Joined(t, pc[t].s)
            /\ UNCHANGED <<streams, orphans, is_connected, closed>>
       ELSE /\ ResetMap
            /\ pc' = [pc EXCEPT ![t].at = "reconnect", ![t].cargs = DefaultArgs,
                                ![t].prev = Filled]

\* A join() that does not wait.
JoinPassesAtOnce(h) == TRUE

\* The barrier passes once the thread that was fetched has ended.
JoinPasses(h) == h = "ended"

\* None.join() with its AttributeError not caught.
OnNoThreadRaises(op, arg, n) == Ret(op, arg, n, "AttributeError", <<>>)

\* Lines 191-194 and 239-242: the entry is None, the AttributeError of
\* None.join() is caught and an empty result is returned with a warning.
OnNoThread(op, arg, n) ==
    [Ret(op, arg, n, IF n \in DOMAIN streams THEN "empty" ELSE "KeyError", <<>>)
        EXCEPT !.warn = "acquire() must be called"]

\* Lines 189-190 and 237-238: join() on the stream's entry.
ReadJoin(t) ==
    /\ pc[t].at = "join"
    /\ NoPendingReturn
    /\ LET n == pc[t].s IN
       IF pc[t].h = "none"
       THEN pc' = [pc EXCEPT ![t] = OnNoThread(pc[t].op, pc[t].arg, n)]
       ELSE /\ JoinPasses(pc[t].h)
            /\ pc' = [pc EXCEPT ![t].at = "read"]
    /\ UNCHANGED <<streams, threads, orphans, is_connected, closed>>

\* Lines 196-199: whether the slice seq[-k:] raises IndexError. A slice of
\* a Python sequence is cut to the sequence's bounds and never raises.
SliceRaises(seq, k) == FALSE

\* Lines 199-204: the warning of the except branch of get_window().
SliceWarning(op, n) ==
    IF op = "get_window" /\ SliceRaises(streams[n].buf, streams[n].win)
    THEN "does not contain enough samples" ELSE ""

\* get_buffer() cut to the window as get_window() is.
ReadResultWindowOnly(op, n) == LastN(streams[n].buf, streams[n].win)

\* What the read returns: the trailing window, or the whole buffer.
ReadResult(op, n) ==
    IF op = "get_window" THEN LastN(streams[n].buf, streams[n].win)
    ELSE streams[n].buf

\* Lines 196-210 and 244-249: the buffer is read and returned.
ReadData(t) ==
    /\ pc[t].at = "read"
    /\ NoPendingReturn
    /\ LET n == pc[t].s
           v == ReadResult(pc[t].op, n)
       IN  pc' = [pc EXCEPT ![t] =
                    IF n \notin DOMAIN streams
                    THEN Ret(pc[t].op, pc[t].arg, n, "KeyError", <<>>)
                    ELSE [Ret(pc[t].op, pc[t].arg, n,
                              IF Len(v) > 0 THEN "data" ELSE "empty", v)
                            EXCEPT !.warn = SliceWarning(pc[t].op, n),
                                   !.busy = pc[t].busy]]
    /\ UNCHANGED <<streams, threads, orphans, is_connected, closed>>

get_window(t, arg) == ReadCall(t, "get_window", arg)

get_buffer(t, arg) == ReadCall(t, "get_buffer", arg)

(***************************************************************************)
(* reset_buffer() and reset_all_buffers(), lines 251-275.                  *)
(***************************************************************************)
reset_buffer(t, arg) ==
    /\ CanCallAlone(t)
    /\ LET n == ResolveName(arg) IN
       IF Ambiguous(arg)
       THEN /\ pc' = [pc EXCEPT ![t] =
                        Ret("reset_buffer", arg, None, "ValueError", <<>>)]
            /\ UNCHANGED streams
       ELSE IF n \notin DOMAIN streams
       THEN /\ pc' = [pc EXCEPT ![t] =
                        Ret("reset_buffer", arg, n, "KeyError", <<>>)]
            /\ UNCHANGED streams
       ELSE /\ streams' = [streams EXCEPT ![n].buf = <<>>, ![n].app = <<>>]
            /\ pc' = [pc EXCEPT ![t] = Ret("reset_buffer", arg, n, "ok", <<>>)]
    /\ UNCHANGED <<threads, orphans, is_connected, closed>>

reset_all_buffers(t) ==
    /\ CanCallAlone(t)
    /\ streams' = [n \in DOMAIN streams |->
                      [streams[n] EXCEPT !.buf = <<>>, !.app = <<>>]]
    /\ pc' = [pc EXCEPT ![t] = Ret("reset_all_buffers", None, None, "ok", <<>>)]
    /\ UNCHANGED <<threads, orphans, is_connected, closed>>

\* The caller has taken the result; the thread is between calls again.
Return(t) ==
    /\ pc[t].at = "ret"
    /\ pc' = [pc EXCEPT ![t] = Idle]
    /\ UNCHANGED <<streams, threads, orphans, is_connected, closed>>

(***************************************************************************)
(* The receiver's specification. Init is the object as __init__ starts     *)
(* (line 32); its first step is the constructor's connect().               *)
(***************************************************************************)
ReceiverInit ==
    /\ streams = EmptyMap
    /\ threads = EmptyMap
    /\ orphans = EmptyBag
    /\ is_connected = FALSE
    /\ pc = [t \in Threads |-> Idle]
    /\ closed = {}

(***************************************************************************)
(* Streamer.stream(), stream_player.py lines 202-259, and Streamer._sleep, *)
(* lines 370-383. Time is counted in milliseconds; the dataset is L        *)
(* samples long.                                                           *)
(***************************************************************************)
\* Bounds of the streamer model.
MaxL == 4
MaxChunk == 3
MaxRepeat == 1
\* Passes an unbounded repeat is followed for.
MaxPasses == 3
\* The clock's last tick.
MaxTime == 7

\* repeat's default, np.float('inf').
Inf == 1000000

\* The 0.001 s below which _sleep does not sleep, in ms.
Threshold == 1

SampleRates == {500, 1000}

StreamCfgs ==
    [L : 1..MaxL, chunk_size : 1..MaxChunk, sfreq : SampleRates,
     repeat : (0..MaxRepeat) \cup {Inf}, high_resolution : BOOLEAN]

VARIABLES
    cfg,            \* the dataset and the arguments of stream()
    spc,            \* where stream() is
    state,          \* the shared lifecycle flag, mp.Value('i', 0)
    idx_chunk, t_start, played, finished,   \* stream()'s locals
    chunk_len,      \* len(data), the chunk sliced in this iteration
    target,         \* the time _sleep waits for
    now,            \* the clock
    sched,          \* the scheduled times of this pass's chunks so far
    lens,           \* the lengths of the chunks pushed in this pass so far
    last_pass,      \* the lengths of the chunks of the last complete pass
    pass_began,     \* the clock when this pass began
    delayed,        \* the number of the first chunk of this pass pushed late
    nchunks,        \* chunks pushed since stream() was called
    data,           \* the chunk of line 236, sample-major
    pushed,         \* the chunks pushed in this pass so far
    last_pushed,    \* the chunks of the last complete pass
    last_sched      \* the scheduled times of the last complete pass

svars == <<cfg, spc, idx_chunk, t_start, played, finished, chunk_len, target,
           now, sched, lens, last_pass, pass_began, delayed, nchunks, data,
           pushed, last_pushed, last_sched>>

\* Channels of the dataset.
NChannels == 2

\* raw._data of a dataset of L samples: one row per channel, every value
\* told apart by its channel and its sample.
RawData(L) == [ch \in 1..NChannels |-> [smp \in 1..L |-> <<ch, smp>>]]

\* A mutation of IdxCurrent: the chunks advance by one sample.
IdxCurrentBySample(i, c) == i

\* Line 233: idx_current.
IdxCurrent(i, c) == i * c

\* Python's row[a:a + c].
Slice(row, a, c) ==
    SubSeq(row, a + 1, IF a + c > Len(row) THEN Len(row) ELSE a + c)

\* Lines 234-235: the columns idx_current:idx_current + chunk_size of every
\* channel.
Chunk(raw, a, c) == [ch \in 1..NChannels |-> Slice(raw[ch], a, c)]

\* Line 236: chunk.transpose().tolist(), one row per sample.
Transpose(chunk) ==
    [smp \in 1..Len(chunk[1]) |-> [ch \in 1..NChannels |-> chunk[ch][smp]]]

\* Line 221: t_chunk = chunk_size / sample rate, in ms.
TChunk(c) == (c.chunk_size * 1000) \div c.sfreq

\* len() of raw._data[:, idx_current:idx_current + chunk_size].
SliceLen(idx_current, L, c) ==
    IF idx_current >= L THEN 0
    ELSE IF idx_current + c > L THEN L - idx_current ELSE c

\* The end-of-data test with > for >=.
FinishedStrict(idx_current, L, c) == idx_current > L - c

\* Line 238: the chunk at idx_current is the last of the pass.
Finished(idx_current, L, c) == idx_current >= L - c

\* Line 231: the loop's condition.
LoopContinues(pl, repeat) == pl <= repeat

\* Lines 376 and 381: the time chunk idx_chunk is due.
ScheduledTime(ts, i, tc) == ts + i * tc

\* The baseline read anew after every chunk.
RestartBaselineEveryChunk(fin, ts, nw) == nw

\* Lines 251-258: the baseline is read anew when a pass ended.
RestartBaseline(fin, ts, nw) == IF fin THEN nw ELSE ts

\* A mutation of Sleeps: waits of up to twice the threshold are skipped.
SleepsOverTwice(t_wait) == t_wait > 2 * Threshold

\* Line 382: the low-resolution mode sleeps when the wait exceeds 0.001 s.
Sleeps(t_wait) == t_wait > Threshold

\* Lines 214-230.
StreamBegin ==
    /\ spc = "init"
    /\ state' = 1
    /\ idx_chunk' = 0
    /\ finished' = FALSE
    /\ t_start' = now
    /\ pass_began' = now
    /\ played' = 0
    /\ spc' = "head"
    /\ UNCHANGED <<cfg, chunk_len, target, now, sched, lens, last_pass,
                   delayed, nchunks, data, pushed, last_pushed,
                   last_sched>>

\* Lines 231-239: the loop's test, the slice, the end-of-data test.
LoopHead ==
    /\ spc = "head"
    /\ IF LoopContinues(played, cfg.repeat)
       THEN /\ played < MaxPasses
            /\ LET idx_current == IdxCurrent(idx_chunk, cfg.chunk_size) IN
               /\ chunk_len' = SliceLen(idx_current, cfg.L, cfg.chunk_size)
               /\ data' = Transpose(Chunk(RawData(cfg.L), idx_current,
                                          cfg.chunk_size))
               /\ finished' = (finished
                               \/ Finished(idx_current, cfg.L, cfg.chunk_size))
            /\ spc' = "sleep"
       ELSE /\ spc' = "returned"
            /\ UNCHANGED <<chunk_len, finished, data>>
    /\ UNCHANGED <<cfg, state, idx_chunk, t_start, played, target, now, sched,
                   lens, last_pass, pass_began, delayed, nchunks, pushed,
                   last_pushed,
                   last_sched>>

\* Line 241, _sleep: the due time is computed; the busy-poll or the sleep
\* starts, or the chunk goes out at once.
SleepCall ==
    /\ spc = "sleep"
    /\ LET due == ScheduledTime(t_start, idx_chunk, TChunk(cfg)) IN
       /\ target' = due
       /\ sched' = Append(sched, due)
       /\ spc' = IF cfg.high_resolution THEN "busy"
                 ELSE IF Sleeps(due - now) THEN "asleep"
                 ELSE "push"
    /\ UNCHANGED <<cfg, state, idx_chunk, t_start, played, finished, chunk_len,
                   now, lens, last_pass, pass_began, delayed, nchunks, data,
                   pushed, last_pushed, last_sched>>

\* The busy-poll sees the due time reached; the sleep is over.
SleepWake ==
    /\ spc \in {"busy", "asleep"}
    /\ now >= target
    /\ spc' = "push"
    /\ UNCHANGED <<cfg, state, idx_chunk, t_start, played, finished, chunk_len,
                   target, now, sched, lens, last_pass, pass_began, delayed,
                   nchunks, data, pushed, last_pushed,
                   last_sched>>

\* Lines 243-259: the chunk is pushed; after the last chunk of a pass the
\* loop restarts.
Push ==
    /\ spc = "push"
    /\ nchunks' = nchunks + 1
    /\ t_start' = RestartBaseline(finished, t_start, now)
    /\ IF finished
       THEN /\ idx_chunk' = 0
            /\ finished' = FALSE
            /\ played' = played + 1
            /\ last_pass' = Append(lens, chunk_len)
            /\ lens' = <<>>
            /\ last_pushed' = Append(pushed, data)
            /\ pushed' = <<>>
            /\ last_sched' = sched
            /\ sched' = <<>>
            /\ pass_began' = now
            /\ delayed' = 0
       ELSE /\ idx_chunk' = idx_chunk + 1
            /\ lens' = Append(lens, chunk_len)
            /\ delayed' = IF delayed = 0 /\ now > target
                          THEN idx_chunk + 1 ELSE delayed
            /\ pushed' = Append(pushed, data)
            /\ UNCHANGED <<finished, played, last_pass, sched, pass_began,
                           last_pushed, last_sched>>
    /\ spc' = "head"
    /\ UNCHANGED <<cfg, state, chunk_len, target, now, data>>

\* Time passes: processing, scheduling and sleeping take their time.
Tick ==
    /\ spc \notin {"init", "returned"}
    /\ now < MaxTime
    /\ now' = now + 1
    /\ UNCHANGED <<cfg, spc, state, idx_chunk, t_start, played, finished,
                   chunk_len, target, sched, lens, last_pass, pass_began,
                   delayed, nchunks, data, pushed, last_pushed,
                   last_sched>>

\* A constructed Streamer whose stream() is about to be called.
StreamerInit ==
    /\ cfg \in StreamCfgs
    /\ spc = "init"
    /\ idx_chunk = 0
    /\ t_start = 0
    /\ played = 0
    /\ finished = FALSE
    /\ chunk_len = 0
    /\ target = 0
    /\ now = 0
    /\ sched = <<>>
    /\ lens = <<>>
    /\ last_pass = <<>>
    /\ pass_began = 0
    /\ delayed = 0
    /\ nchunks = 0
    /\ data = <<>>
    /\ pushed = <<>>
    /\ last_pushed = <<>>
    /\ last_sched = <<>>

(***************************************************************************)
(* StreamPlayer, stream_player.py lines 34-98: the supervisor's start(),   *)
(* wait() and stop(), and the worker processes it launches. A worker runs  *)
(* _stream(): it constructs a Streamer and calls stream(); its pacing is   *)
(* left out here, its loop is the one of LoopHead and Push.                *)
(***************************************************************************)
\* Worker processes one player launches.
MaxProcs == 2

\* The dataset the workers of the player load, and the player's chunk_size.
PlayerData == [L |-> 1, chunk_size |-> 1]

Repeats == (0..MaxRepeat) \cup {Inf}

VARIABLES
    process,        \* self._process: 0 for None, or the number of a worker
    procs,          \* the worker processes launched so far
    ppc             \* where the supervisor is

pvars == <<process, procs, ppc>>

PIdle == [at |-> "idle", op |-> "", out |-> "", timed |-> FALSE]

PRet(op, out) == [at |-> "ret", op |-> op, out |-> out, timed |-> FALSE]

Alive(p) == procs[p].st \in {"started", "ready", "streaming"}

\* Line 65: the flag start() busy-waits on.
FlagSeen(v) == v # 0

\* Lines 59-63: start() launches a worker.
start(repeat) ==
    /\ ppc.at = "idle"
    /\ Len(procs) < MaxProcs
    /\ procs' = Append(procs, [st |-> "started", repeat |-> repeat,
                               idx_chunk |-> 0, played |-> 0,
                               finished |-> FALSE, sig |-> FALSE,
                               outlet |-> FALSE, nset |-> 0, sent |-> 0])
    /\ process' = Len(procs) + 1
    /\ ppc' = [at |-> "spin", op |-> "start", out |-> "", timed |-> FALSE]
    /\ UNCHANGED state

\* Lines 65-67: the busy-wait of start() ends.
StartSpin ==
    /\ ppc.at = "spin"
    /\ FlagSeen(state)
    /\ ppc' = PRet("start", "ok")
    /\ UNCHANGED <<process, procs, state>>

\* Line 79: wait() joins the worker; None has no join.
wait(timed) ==
    /\ ppc.at = "idle"
    /\ ppc' = IF process = 0 THEN PRet("wait", "AttributeError")
              ELSE [at |-> "join", op |-> "wait", out |-> "", timed |-> timed]
    /\ UNCHANGED <<process, procs, state>>

\* join() returns: the worker is dead, or the timeout is reached.
WaitJoin ==
    /\ ppc.at = "join"
    /\ ~Alive(process) \/ ppc.timed
    /\ ppc' = PRet("wait", IF Alive(process) THEN "timeout" ELSE "ok")
    /\ UNCHANGED <<process, procs, state>>

\* Lines 85-88: stop() terminates the worker, if there is one.
stop ==
    /\ ppc.at = "idle"
    /\ procs' = IF process # 0 /\ Alive(process)
                THEN [procs EXCEPT ![process].sig = TRUE] ELSE procs
    /\ ppc' = PRet("stop", "ok")
    /\ UNCHANGED <<process, state>>

\* The call returns to the caller.
PReturn ==
    /\ ppc.at = "ret"
    /\ ppc' = PIdle
    /\ UNCHANGED <<process, procs, state>>

\* A worker runs only between the supervisor's steps that return.
Running(p) == ppc.at # "ret" /\ p \in 1..Len(procs) /\ Alive(p)

\* Lines 96-97, Streamer.__init__ (181-200): the data is loaded and the
\* outlet made, or load_data raises and the worker dies.
ProcConstruct(p, loaded) ==
    /\ Running(p)
    /\ procs[p].st = "started"
    /\ procs' = [procs EXCEPT ![p].st = IF loaded THEN "ready" ELSE "failed",
                              ![p].outlet = loaded]
    /\ UNCHANGED <<process, ppc, state>>

\* Lines 214-230: stream() sets the flag and its locals.
ProcStreamBegin(p) ==
    /\ Running(p)
    /\ procs[p].st = "ready"
    /\ state' = 1
    /\ procs' = [procs EXCEPT ![p].st = "streaming", ![p].idx_chunk = 0,
                              ![p].played = 0, ![p].finished = FALSE,
                              ![p].nset = @ + 1]
    /\ UNCHANGED <<process, ppc>>

\* A mutation of InLoop: the loop runs before the flag is set.
InLoopBeforeFlag(w) == w.st \in {"ready", "streaming"}

\* Lines 217-231: the loop of stream() is entered after the flag is set.
InLoop(w) == w.st = "streaming"

\* Lines 231-259: one iteration of the loop, a chunk pushed.
ProcEmit(p) ==
    /\ Running(p)
    /\ InLoop(procs[p])
    /\ LoopContinues(procs[p].played, procs[p].repeat)
    /\ procs[p].played < MaxPasses
    /\ LET w == procs[p]
           fin == w.finished \/ Finished(w.idx_chunk * PlayerData.chunk_size,
                                         PlayerData.L, PlayerData.chunk_size)
       IN  procs' = [procs EXCEPT
                        ![p].idx_chunk = IF fin THEN 0 ELSE w.idx_chunk + 1,
                        ![p].played = IF fin THEN w.played + 1 ELSE w.played,
                        ![p].finished = FALSE,
                        ![p].sent = @ + 1]
    /\ UNCHANGED <<process, ppc, state>>

\* Line 231: the loop ends, stream() and the worker return.
ProcExit(p) ==
    /\ Running(p)
    /\ procs[p].st = "streaming"
    /\ ~LoopContinues(procs[p].played, procs[p].repeat)
    /\ procs' = [procs EXCEPT ![p].st = "exited"]
    /\ UNCHANGED <<process, ppc, state>>

\* The signal of terminate() kills the worker.
ProcDie(p) ==
    /\ Running(p)
    /\ procs[p].sig
    /\ procs' = [procs EXCEPT ![p].st = "terminated"]
    /\ UNCHANGED <<process, ppc, state>>

\* Lines 43-44.
PlayerInit ==
    /\ process = 0
    /\ procs = <<>>
    /\ ppc = PIdle

(***************************************************************************)
(* The specifications.                                                     *)
(***************************************************************************)
vars == <<rvars, svars, pvars, state>>

\* The steps of the consumer threads T and of the workers.
ReceiverNext(T) ==
    \/ \E t \in T, a \in ConnectArgs :
          ConnectBegin(t, a) /\ UNCHANGED <<svars, pvars, state>>
    \/ \E t \in T, vis \in SUBSET Sources :
          ConnectScan(t, vis) /\ UNCHANGED <<svars, pvars, state>>
    \/ \E t \in T, arg \in NameArgs :
          disconnect_stream(t, arg) /\ UNCHANGED <<svars, pvars, state>>
    \/ \E t \in T :
          AcquireCall(t) /\ UNCHANGED <<svars, pvars, state>>
    \/ \E t \in T, n \in SourceNames :
          AcquireCheck(t, n) /\ UNCHANGED <<svars, pvars, state>>
    \/ \E t \in T :
          AcquireSpawn(t) /\ UNCHANGED <<svars, pvars, state>>
    \/ \E d \in LiveThreads, k \in {0, 1} :
          WorkerPull(d, k) /\ UNCHANGED <<svars, pvars, state>>
    \/ \E d \in LiveThreads :
          WorkerAppend(d) /\ UNCHANGED <<svars, pvars, state>>
    \/ \E t \in T, arg \in NameArgs :
          get_window(t, arg) /\ UNCHANGED <<svars, pvars, state>>
    \/ \E t \in T, arg \in NameArgs :
          get_buffer(t, arg) /\ UNCHANGED <<svars, pvars, state>>
    \/ \E t \in T :
          ReadJoin(t) /\ UNCHANGED <<svars, pvars, state>>
    \/ \E t \in T :
          ReadData(t) /\ UNCHANGED <<svars, pvars, state>>
    \/ \E t \in T, arg \in NameArgs :
          reset_buffer(t, arg) /\ UNCHANGED <<svars, pvars, state>>
    \/ \E t \in T :
          reset_all_buffers(t) /\ UNCHANGED <<svars, pvars, state>>
    \/ \E t \in T :
          Return(t) /\ UNCHANGED <<svars, pvars, state>>

\* The streamer at rest, for the specifications that do not run it.
StreamerIdle ==
    /\ cfg = [L |-> 1, chunk_size |-> 1, sfreq |-> 1000, repeat |-> 0,
              high_resolution |-> FALSE]
    /\ spc = "idle"
    /\ idx_chunk = 0
    /\ t_start = 0
    /\ played = 0
    /\ finished = FALSE
    /\ chunk_len = 0
    /\ target = 0
    /\ now = 0
    /\ sched = <<>>
    /\ lens = <<>>
    /\ last_pass = <<>>
    /\ pass_began = 0
    /\ delayed = 0
    /\ nchunks = 0
    /\ data = <<>>
    /\ pushed = <<>>
    /\ last_pushed = <<>>
    /\ last_sched = <<>>

\* One consumer thread: every method of the receiver, called one after the
\* other.
Init == ReceiverInit /\ StreamerIdle /\ PlayerInit /\ state = 0

Next == ReceiverNext({"main"})

Spec == Init /\ [][Next]_vars

\* Two consumer threads, on a receiver connected to every source or to
\* every EEG source, with a window of one entry.
ThreadsArgs == {a \in ConnectArgs : a.winsize = 1 /\ a.stream_name = NoFilter}

\* The sources that are visible while two threads use the receiver: one
\* that connect() registers and one that it skips.
ThreadsSources == {src \in Sources : src.name \in {"AMP1", Reserved}}

\* The threads connect, acquire and read.
NextThreads ==
    \/ \E t \in Threads, a \in ThreadsArgs :
          ConnectBegin(t, a) /\ UNCHANGED <<svars, pvars, state>>
    \/ \E t \in Threads, vis \in SUBSET ThreadsSources :
          ConnectScan(t, vis) /\ UNCHANGED <<svars, pvars, state>>
    \/ \E t \in Threads :
          AcquireCall(t) /\ UNCHANGED <<svars, pvars, state>>
    \/ \E t \in Threads, n \in SourceNames :
          AcquireCheck(t, n) /\ UNCHANGED <<svars, pvars, state>>
    \/ \E t \in Threads :
          AcquireSpawn(t) /\ UNCHANGED <<svars, pvars, state>>
    \/ \E d \in LiveThreads, k \in {0, 1} :
          WorkerPull(d, k) /\ UNCHANGED <<svars, pvars, state>>
    \/ \E d \in LiveThreads :
          WorkerAppend(d) /\ UNCHANGED <<svars, pvars, state>>
    \/ \E t \in Threads, arg \in NameArgs :
          get_window(t, arg) /\ UNCHANGED <<svars, pvars, state>>
    \/ \E t \in Threads, arg \in NameArgs :
          get_buffer(t, arg) /\ UNCHANGED <<svars, pvars, state>>
    \/ \E t \in Threads :
          ReadJoin(t) /\ UNCHANGED <<svars, pvars, state>>
    \/ \E t \in Threads :
          ReadData(t) /\ UNCHANGED <<svars, pvars, state>>
    \/ \E t \in Threads :
          Return(t) /\ UNCHANGED <<svars, pvars, state>>

SpecThreads == Init /\ [][NextThreads]_vars

\* The steps inside get_window() and get_buffer() of thread t, and its
\* return.
ReadStep(t) ==
    \/ ReadJoin(t) /\ UNCHANGED <<svars, pvars, state>>
    \/ ReadData(t) /\ UNCHANGED <<svars, pvars, state>>
    \/ Return(t) /\ UNCHANGED <<svars, pvars, state>>

\* A step of the worker that the join() of thread t waits for.
JoinedWorkerStep(t) ==
    \E d \in LiveThreads :
        /\ t \in d.w.j
        /\ \/ \E k \in {0, 1} : WorkerPull(d, k)
           \/ WorkerAppend(d)
        /\ UNCHANGED <<svars, pvars, state>>

\* A consumer thread inside a call goes on running, and the pull and the
\* append of a worker that a join() waits for complete. The steps of the
\* model wait for a pending return of another thread, which the code does
\* not: a step that can be taken again and again is taken.
FairThreads ==
    \A t \in Threads : SF_vars(ReadStep(t)) /\ SF_vars(JoinedWorkerStep(t))

\* Two consumer threads on a receiver that stays connected as its
\* constructor connected it: they acquire and read.
NextLive ==
    \/ \E t \in Threads, a \in ThreadsArgs :
          /\ DOMAIN threads = {}
          /\ ConnectBegin(t, a) /\ UNCHANGED <<svars, pvars, state>>
    \/ \E t \in Threads, vis \in SUBSET ThreadsSources :
          ConnectScan(t, vis) /\ UNCHANGED <<svars, pvars, state>>
    \/ \E t \in Threads :
          AcquireCall(t) /\ UNCHANGED <<svars, pvars, state>>
    \/ \E t \in Threads, n \in SourceNames :
          AcquireCheck(t, n) /\ UNCHANGED <<svars, pvars, state>>
    \/ \E t \in Threads :
          AcquireSpawn(t) /\ UNCHANGED <<svars, pvars, state>>
    \/ \E d \in LiveThreads, k \in {0, 1} :
          WorkerPull(d, k) /\ UNCHANGED <<svars, pvars, state>>
    \/ \E d \in LiveThreads :
          WorkerAppend(d) /\ UNCHANGED <<svars, pvars, state>>
    \/ \E t \in Threads, arg \in NameArgs :
          get_window(t, arg) /\ UNCHANGED <<svars, pvars, state>>
    \/ \E t \in Threads, arg \in NameArgs :
          get_buffer(t, arg) /\ UNCHANGED <<svars, pvars, state>>
    \/ \E t \in Threads :
          ReadJoin(t) /\ UNCHANGED <<svars, pvars, state>>
    \/ \E t \in Threads :
          ReadData(t) /\ UNCHANGED <<svars, pvars, state>>
    \/ \E t \in Threads :
          Return(t) /\ UNCHANGED <<svars, pvars, state>>

SpecLive == Init /\ [][NextLive]_vars /\ FairThreads

\* The receiver was constructed with these arguments, and is connected
\* again with them.
OrigArgs ==
    [bufsize |-> 2, winsize |-> 1, stream_name |-> StrFilter("AMP1"),
     eeg_only |-> TRUE]

\* Two consumer threads, one of which calls connect() while the other is
\* inside get_window() or get_buffer().
NextReconnect ==
    \/ \E t \in Threads :
          connect(t, OrigArgs) /\ UNCHANGED <<svars, pvars, state>>
    \/ \E t \in Threads, vis \in SUBSET Sources :
          ConnectScan(t, vis) /\ UNCHANGED <<svars, pvars, state>>
    \/ \E t \in Threads, op \in {"get_window", "get_buffer"}, arg \in NameArgs :
          ReadLookup(t, op, arg) /\ UNCHANGED <<svars, pvars, state>>
    \/ \E t \in Threads :
          IsConnectedRead(t) /\ UNCHANGED <<svars, pvars, state>>
    \/ \E t \in Threads :
          ReadJoin(t) /\ UNCHANGED <<svars, pvars, state>>
    \/ \E t \in Threads :
          Return(t) /\ UNCHANGED <<svars, pvars, state>>

SpecReconnect == Init /\ [][NextReconnect]_vars

\* One run of Streamer.stream().
InitStreamer == ReceiverInit /\ StreamerInit /\ PlayerInit /\ state = 0

NextStreamer ==
    \/ StreamBegin /\ UNCHANGED <<rvars, pvars>>
    \/ LoopHead /\ UNCHANGED <<rvars, pvars>>
    \/ SleepCall /\ UNCHANGED <<rvars, pvars>>
    \/ SleepWake /\ UNCHANGED <<rvars, pvars>>
    \/ Push /\ UNCHANGED <<rvars, pvars>>
    \/ Tick /\ UNCHANGED <<rvars, pvars>>

SpecStreamer == InitStreamer /\ [][NextStreamer]_vars

\* One player, its supervisor and its workers.
InitPlayer == ReceiverInit /\ StreamerIdle /\ PlayerInit /\ state = 0

NextPlayer ==
    \/ \E repeat \in Repeats :
          start(repeat) /\ UNCHANGED <<rvars, svars>>
    \/ StartSpin /\ UNCHANGED <<rvars, svars>>
    \/ \E timed \in BOOLEAN :
          wait(timed) /\ UNCHANGED <<rvars, svars>>
    \/ WaitJoin /\ UNCHANGED <<rvars, svars>>
    \/ stop /\ UNCHANGED <<rvars, svars>>
    \/ PReturn /\ UNCHANGED <<rvars, svars>>
    \/ \E p \in 1..MaxProcs, loaded \in BOOLEAN :
          ProcConstruct(p, loaded) /\ UNCHANGED <<rvars, svars>>
    \/ \E p \in 1..MaxProcs :
          ProcStreamBegin(p) /\ UNCHANGED <<rvars, svars>>
    \/ \E p \in 1..MaxProcs :
          ProcEmit(p) /\ UNCHANGED <<rvars, svars>>
    \/ \E p \in 1..MaxProcs :
          ProcExit(p) /\ UNCHANGED <<rvars, svars>>
    \/ \E p \in 1..MaxProcs :
          ProcDie(p) /\ UNCHANGED <<rvars, svars>>

SpecPlayer == InitPlayer /\ [][NextPlayer]_vars

(***************************************************************************)
(* Claims about the receiver.                                              *)
(***************************************************************************)
\* C1: at most one acquisition worker per stream name is alive at any
\* time, also when acquire() is called from several consumer threads.
C1_OneWorkerPerStream == \A n \in SourceNames : NumLiveOn(n) <= 1

\* A consumer is reading the buffer of the stream object registered under
\* n while a live worker started on that object is appending to it.
ReadOverlapsAppend(t) ==
    /\ pc[t].at = "read"
    /\ \E d \in LiveThreads :
        d.name = pc[t].s /\ d.w.tgt = "current" /\ d.w.st = "appending"

\* C2: no get_window() or get_buffer() reads a stream's buffer while a
\* worker of that stream is appending to it.
C2_ReadsAndWritesDisjoint == \A t \in Threads : ~ReadOverlapsAppend(t)

IsRet(t, op) == pc[t].at = "ret" /\ pc[t].op = op

NeverAcquired == \A n \in DOMAIN streams : ~streams[n].acq

\* C7 as stated: a get_window() call on a receiver with connected streams,
\* none of which ever had a worker started, returns an empty result,
\* whatever the number of connected streams and whatever name is passed.
C7_EmptyBeforeAcquireAnyName ==
    \A t \in Threads :
        IsRet(t, "get_window") /\ DOMAIN streams # {} /\ NeverAcquired
        => pc[t].out = "empty"

\* The name resolves: one stream is connected, or the name is a connected
\* stream's.
Resolves(arg) == Cardinality(DOMAIN streams) = 1 \/ arg \in DOMAIN streams

\* C7 amended: when the name resolves to a connected stream on which no
\* worker was ever started, get_window() returns an empty result with no
\* rows and does not raise.
C7_EmptyBeforeAcquire ==
    \A t \in Threads :
        (/\ IsRet(t, "get_window")
         /\ Resolves(pc[t].arg)
         /\ ~streams[ResolveName(pc[t].arg)].acq)
        => pc[t].out = "empty" /\ pc[t].val = <<>>

C7_Witness ==
    \E t \in Threads :
        /\ IsRet(t, "get_window")
        /\ pc[t].arg = "AMP2"
        /\ Cardinality(DOMAIN streams) = 2
        /\ ~streams["AMP2"].acq
        /\ streams["AMP1"].acq
        /\ pc[t].out = "empty"

ResolvingOps == {"get_window", "get_buffer", "reset_buffer", "disconnect_stream"}

\* A call of op without a name by thread t, as a step.
CallsUnnamed(t, op) ==
    /\ pc[t].at = "idle"
    /\ pc'[t].at # "idle"
    /\ pc'[t].op = op
    /\ pc'[t].arg = None

\* What each method does to the sole stream.
ActsOn(t, op, n) ==
    /\ pc'[t].s = n
    /\ pc'[t].out \notin {"ValueError", "KeyError", "skipped"}
    /\ op \in {"get_window", "get_buffer"} =>
          pc'[t].at = "join" /\ streams' = streams
    /\ op = "reset_buffer" =>
          /\ DOMAIN streams' = DOMAIN streams
          /\ streams'[n].buf = <<>>
    /\ op = "disconnect_stream" =>
          /\ DOMAIN streams' = {}
          /\ n \in closed'

\* C8: called without a name, get_window, get_buffer, reset_buffer and
\* disconnect_stream act on the sole stream when exactly one is connected,
\* and otherwise raise ValueError and leave the stream map, the worker map
\* and the buffers as they were.
C8_NameResolution ==
    [][\A t \in Threads, op \in ResolvingOps :
        CallsUnnamed(t, op) =>
            IF Cardinality(DOMAIN streams) = 1
            THEN ActsOn(t, op, Sole)
            ELSE /\ pc'[t].at = "ret"
                 /\ pc'[t].out = "ValueError"
                 /\ UNCHANGED <<streams, threads, orphans>>]_vars

\* An unnamed get_buffer() with two streams connected raised ValueError.
C8_Witness ==
    \E t \in Threads :
        /\ IsRet(t, "get_buffer")
        /\ pc[t].arg = None
        /\ pc[t].out = "ValueError"
        /\ Cardinality(DOMAIN streams) = 2

\* The source a connected stream was registered from.
SourceOf(n) == CHOOSE i \in Sources : i.name = n

VisibleNames(vis) == {i.name : i \in vis}

\* C9: when connect() returns, every registered stream passed the filters
\* of the call: an EEG type under eeg_only, the name asked for, a name of
\* the list asked for, never the reserved name; and with "AMP1" asked for
\* and AMP1 and AMP2 visible the stream map is exactly {AMP1}.
C9_ConnectFilters ==
    \A t \in Threads :
        IsRet(t, "connect") =>
            LET a == pc[t].cargs IN
            /\ \A n \in DOMAIN streams :
                /\ a.eeg_only => Lower(SourceOf(n).type) = "eeg"
                /\ a.stream_name.kind \in {"str", "list"} => n \in a.stream_name.names
                /\ n # Reserved
            /\ (a.stream_name = StrFilter("AMP1")
                  /\ {"AMP1", "AMP2"} \subseteq VisibleNames(pc[t].vis))
               => DOMAIN streams = {"AMP1"}

C9_Witness ==
    \E t \in Threads :
        /\ IsRet(t, "connect")
        /\ pc[t].cargs.stream_name = StrFilter("AMP1")
        /\ {"AMP1", "AMP2", Reserved} \subseteq VisibleNames(pc[t].vis)
        /\ DOMAIN streams = {"AMP1"}

\* C10: connect() never returns with an empty stream map.
C10_ConnectRegistersAStream ==
    \A t \in Threads : IsRet(t, "connect") => DOMAIN streams # {}

\* The names connect() registers from the sources vis under the arguments a.
Registered(vis, a) ==
    {i.name : i \in {j \in vis : PassesFilters(j, a) /\ StreamKind(j) # "none"}}

\* C11: when connect() returns, the stream map holds exactly the sources
\* this call registered, each with an empty buffer on which no worker was
\* started; nothing of the map of before the call remains.
C11_ReconnectReplacesMap ==
    \A t \in Threads :
        IsRet(t, "connect") =>
            /\ DOMAIN streams = Registered(pc[t].vis, pc[t].cargs)
            /\ \A n \in DOMAIN streams :
                  /\ streams[n].buf = <<>>
                  /\ ~streams[n].acq
                  /\ streams[n].cap = pc[t].cargs.bufsize

\* A reconnect returned: a stream whose buffer held entries is connected
\* again, another that held entries is no longer connected.
C11_Witness ==
    \E t \in Threads :
        /\ IsRet(t, "connect")
        /\ pc[t].prev \cap DOMAIN streams # {}
        /\ pc[t].prev \ DOMAIN streams # {}

\* C12: after disconnect_stream() succeeded on the connected stream s, s is
\* in neither the stream map nor the worker map and its inlet was closed.
C12_DisconnectRemovesEntries ==
    \A t \in Threads :
        IsRet(t, "disconnect_stream") /\ pc[t].out = "ok" =>
            /\ pc[t].s \notin DOMAIN streams
            /\ pc[t].s \in closed
            /\ pc[t].s \notin DOMAIN threads

\* Thread t has come back from the connect() that its read of is_connected
\* called.
AutoReconnected(t) == pc[t].at = "isconn" /\ pc[t].cargs # NoArgs

\* C13: after the connect() that a read of is_connected makes, the stream
\* map satisfies the filters and the buffer sizes the receiver was
\* connected with.
C13_AutoReconnectKeepsArguments ==
    \A t \in Threads :
        AutoReconnected(t) =>
            \A n \in DOMAIN streams :
                /\ PassesFilters(SourceOf(n), OrigArgs)
                /\ streams[n].cap = OrigArgs.bufsize
                /\ streams[n].win = OrigArgs.winsize

\* C14: get_window() on a stream on which a worker was started and whose
\* buffer holds entries, but fewer than a window, returns every entry and
\* logs the warning that the buffer does not contain enough samples.
C14_PartialWindowWarns ==
    \A t \in Threads :
        (/\ IsRet(t, "get_window")
         /\ pc[t].out \in {"data", "empty"}
         /\ streams[pc[t].s].acq
         /\ streams[pc[t].s].buf # <<>>
         /\ Len(streams[pc[t].s].buf) < streams[pc[t].s].win)
        => /\ pc[t].val = streams[pc[t].s].buf
           /\ pc[t].warn = "does not contain enough samples"

\* A worker started on the stream object registered under n is running.
InFlight(n) == \E d \in LiveThreads : d.name = n /\ d.w.tgt = "current"

\* C15: reset_buffer() and reset_all_buffers() do not clear the buffer of a
\* stream while a worker of that stream is in flight.
C15_ResetOnlyWhenQuiescent ==
    \A t \in Threads :
        /\ IsRet(t, "reset_buffer") /\ pc[t].out = "ok" => ~InFlight(pc[t].s)
        /\ IsRet(t, "reset_all_buffers") =>
              \A n \in DOMAIN streams : ~InFlight(n)

C19_ReadAfterWorkerCompleted ==
    \A t \in Threads :
        /\ pc[t].at = "read" => ~InFlight(pc[t].s)
        /\ (/\ IsRet(t, "get_window") \/ IsRet(t, "get_buffer")
            /\ pc[t].out \in {"data", "empty"})
           => LET app == streams[pc[t].s].app
                  val == pc[t].val
              IN  /\ ~InFlight(pc[t].s)
                  /\ app # <<>> => /\ val # <<>>
                                   /\ val[Len(val)] = app[Len(app)]

\* A read called while the stream's worker was in flight has returned
\* what that worker appended.
C19_Witness ==
    \E t \in Threads :
        /\ IsRet(t, "get_window")
        /\ pc[t].busy
        /\ pc[t].out = "data"
        /\ pc[t].val = <<streams[pc[t].s].nrecv>>

\* C20: no thread handle of before a reconnect stays in the worker map, so
\* when acquire() has returned a worker was started on the stream object of
\* every connected stream.
C20_AcquireAfterReconnectSpawns ==
    \A t \in Threads :
        IsRet(t, "acquire") /\ pc[t].out = "ok" =>
            \A n \in DOMAIN streams : streams[n].acq

\* C26: a thread that is inside get_window() or get_buffer(), waiting in
\* join() or about to read, eventually returns from the call, whatever
\* acquire() calls it and the other thread make meanwhile.
C26_ReadsReturn ==
    \A t \in Threads : (pc[t].at \in {"join", "read"}) ~> (pc[t].at = "ret")

\* A read that had to wait for a live worker has returned while the other
\* thread is inside acquire().
C26_Witness ==
    \E t \in Threads, u \in Threads :
        /\ IsRet(t, "get_window") \/ IsRet(t, "get_buffer")
        /\ pc[t].busy
        /\ pc[u].op = "acquire" /\ pc[u].at = "acq_spawn"

\* C27: get_window, get_buffer, reset_buffer and disconnect_stream called
\* with an explicit name act on the stream of that name or fail; they never
\* act on a stream of another name.
C27_ExplicitNameHonoured ==
    \A t \in Threads :
        /\ pc[t].op \in ResolvingOps
        /\ pc[t].arg # None
        /\ pc[t].out \notin {"KeyError", "ValueError"}
        => pc[t].s = pc[t].arg

\* C28: no acquisition thread is inside its pull on a stream whose inlet
\* disconnect_stream() has closed.
C28_NoPullOnClosedInlet ==
    \A d \in LiveThreads : ~(d.w.st = "pulling" /\ d.w.tgt = "closed")

\* C29: the connected flag is true only if the stream map is not empty;
\* when disconnect_stream() has removed the last connected stream the flag
\* is false.
C29_LastDisconnectClearsFlag ==
    \A t \in Threads :
        /\ IsRet(t, "disconnect_stream")
        /\ pc[t].out = "ok"
        /\ DOMAIN streams = {}
        => ~is_connected

\* C30: every name of the stream map is a key of the worker map, and no
\* call ends with a KeyError for a stream that is connected.
C30_StreamsHaveWorkerEntries ==
    /\ DOMAIN streams \subseteq DOMAIN threads
    /\ \A t \in Threads :
          pc[t].out = "KeyError" => pc[t].s \notin DOMAIN streams

\* acquire() has returned on a receiver that was reconnected to another
\* stream than the one it had.
C30_Witness ==
    \E t \in Threads :
        /\ IsRet(t, "acquire")
        /\ DOMAIN streams = {"AMP2"}
        /\ DOMAIN threads = {"AMP1", "AMP2"}
        /\ IsAlive(threads["AMP2"])
(***************************************************************************)
(* Claims about the streamer.                                              *)
(***************************************************************************)
\* C4: within a pass the scheduled time of chunk i is the time the pass
\* began plus i chunk durations, whatever delay the earlier chunks of the
\* pass met.
C4_ScheduleAnchoredAtPassStart ==
    \A i \in 1..Len(sched) : sched[i] = pass_began + (i - 1) * TChunk(cfg)

\* A chunk was scheduled after an earlier chunk of its pass went out late.
C4_Witness ==
    /\ delayed > 0
    /\ Len(sched) > delayed
    /\ now > pass_began

Ceil(a, b) == (a + b - 1) \div b

LastLen(L, c) == IF L % c = 0 THEN c ELSE L % c

\* C5: a pass is ceil(L/c) chunks, all of length c but the last, which
\* is L mod c long, or c when c divides L; a dataset shorter than a chunk
\* makes one chunk of length L.
C5_ChunksPerPass ==
    LET L == cfg.L
        c == cfg.chunk_size
    IN  /\ Len(lens) < Ceil(L, c)
        /\ \A i \in 1..Len(lens) : lens[i] = c
        /\ last_pass # <<>> =>
              /\ Len(last_pass) = Ceil(L, c)
              /\ \A i \in 1..(Len(last_pass) - 1) : last_pass[i] = c
              /\ last_pass[Len(last_pass)] = LastLen(L, c)
              /\ L < c => last_pass = <<L>>

\* A pass of several chunks has ended on a short chunk.
C5_Witness ==
    /\ Len(last_pass) >= 2
    /\ last_pass[Len(last_pass)] < cfg.chunk_size
    /\ played >= 1

\* C6: with a finite repeat = r, stream() returns after exactly r passes,
\* r * ceil(L/c) chunks.
C6_RepeatPasses ==
    spc = "returned" /\ cfg.repeat \in 1..MaxRepeat =>
        /\ played = cfg.repeat
        /\ nchunks = cfg.repeat * Ceil(cfg.L, cfg.chunk_size)


\* C22 as stated: in both pacing modes a chunk is pushed only once the
\* clock has reached its scheduled time.
C22_NeverBeforeScheduledTime ==
    spc = "push" => now >= target

\* C22: with high_resolution a chunk is pushed only once the clock has
\* reached its scheduled time; without it a chunk is pushed no more than
\* the 1 ms threshold of _sleep before its scheduled time.
C22_NotBeforeScheduledTime ==
    spc = "push" =>
        IF cfg.high_resolution THEN now >= target
        ELSE now >= target - Threshold

\* A chunk after the first of a pass goes out the whole threshold early.
C22_Witness ==
    /\ spc = "push"
    /\ ~cfg.high_resolution
    /\ idx_chunk > 0
    /\ now = target - Threshold

\* The samples a to b of the dataset, one row per sample.
Rows(a, b) ==
    [j \in 1..(b - a) |-> [ch \in 1..NChannels |-> RawData(cfg.L)[ch][a + j]]]

RECURSIVE Concat(_)
Concat(chunks) ==
    IF chunks = <<>> THEN <<>> ELSE Head(chunks) \o Concat(Tail(chunks))

\* C23: chunk i of a pass is the samples i*c up to min((i+1)*c, L) of every
\* channel, one row per sample; the chunks pushed so far in a pass are the
\* first samples of the dataset in order, and the chunks of every complete
\* pass, put end to end, are the whole dataset.
C23_ChunksPartitionDataset ==
    LET L == cfg.L
        c == cfg.chunk_size
        Upto(i) == IF i * c > L THEN L ELSE i * c
    IN  /\ spc \in {"sleep", "busy", "asleep", "push"} =>
              data = Rows(idx_chunk * c, Upto(idx_chunk + 1))
        /\ \A i \in 1..Len(pushed) : pushed[i] = Rows((i - 1) * c, Upto(i))
        /\ Len(pushed) = idx_chunk
        /\ played >= 1 => Concat(last_pushed) = Rows(0, L)

\* A second pass has ended whose last chunk was short.
C23_Witness ==
    /\ played >= 2
    /\ Len(last_pushed) >= 2
    /\ Len(last_pushed[Len(last_pushed)]) < cfg.chunk_size
    /\ Concat(last_pushed) = Rows(0, cfg.L)

\* C24: the first chunk of a pass is scheduled one chunk duration after
\* the last chunk of the pass before it.
C24_RestartKeepsChunkSpacing ==
    played >= 1 /\ sched # <<>> =>
        sched[1] = last_sched[Len(last_sched)] + TChunk(cfg)
(***************************************************************************)
(* Claims about the player.                                                *)
(***************************************************************************)
\* C3: whenever start() returns, the worker that this start() launched
\* has constructed its Streamer and entered streaming.
C3_StartReturnsAfterOwnWorkerStreams ==
    ppc.at = "ret" /\ ppc.op = "start"
        => procs[process].st \in {"streaming", "exited"}

\* C16: start() is not left blocked for ever by a worker that died while
\* constructing its Streamer: while start() waits for the flag, a worker
\* that can still set the flag is alive.
C16_StartNotBlockedByFailedLoad ==
    ppc.at = "spin" /\ ~FlagSeen(state) => \E p \in 1..Len(procs) : Alive(p)

\* C17: the lifecycle flag is 1 only while a worker is streaming: once the
\* worker has returned from stream() or was terminated, the flag is not 1.
C17_FlagOnlyWhileStreaming ==
    state = 1 => \E p \in 1..Len(procs) : procs[p].st = "streaming"


C25_StopTerminatesEveryWorker ==
    ppc.at = "ret" /\ ppc.op = "stop" =>
        \A p \in 1..Len(procs) : Alive(p) => procs[p].sig
====
